---- MODULE Spec2Model ----
(***************************************************************************)
(* The interactive retention data-grid of                                  *)
(* src/frontend/src/pages/RetentionPage.tsx (the second RetentionPage, the *)
(* one with filters, column filters, sort, column order): its React state, *)
(* its event handlers and effects, and the page-fetch requests in flight.  *)
(*                                                                         *)
(* One action is one event-loop task: a handler (or a timer callback, or a *)
(* promise continuation), the render its state updates cause, and the      *)
(* effects that run after that render.  State updates made in one task are *)
(* applied together before the effects run (batched updates).              *)
(***************************************************************************)
EXTENDS Integers, Sequences, FiniteSets, TLC

\* ------------------------------------------------------------------------
\* Values
\* ------------------------------------------------------------------------

\* JavaScript `undefined`: a parameter with this value is not serialised.
UNDEFINED == "<undefined>"

\* x || undefined
OrUndefined(x) == IF x = "" THEN UNDEFINED ELSE x

PAGE_SIZE == 50

\* ------------------------------------------------------------------------
\* Global filters (interface Filters, EMPTY_FILTERS)
\* ------------------------------------------------------------------------

NumericPrefixes ==
  {"trade_count", "days", "profit", "days_from_last_trade", "deposit_count",
   "total_deposit", "balance", "credit", "equity", "live_equity",
   "max_open_trade", "max_volume", "turnover"}

OpKey(p) == p \o "_op"

ValKey(p) == p \o "_val"

FilterKeys ==
  {"accountid", "qual_date_from", "qual_date_to",
   "last_trade_preset", "last_trade_from", "last_trade_to",
   "assigned_to", "task_id", "active", "active_ftd"}
  \cup {OpKey(p) : p \in NumericPrefixes}
  \cup {ValKey(p) : p \in NumericPrefixes}

EMPTY_FILTERS == [k \in FilterKeys |-> ""]

\* { ...prev, ...fields }
Merge(prev, fields) ==
  [k \in DOMAIN prev |-> IF k \in DOMAIN fields THEN fields[k] ELSE prev[k]]

\* a && b on strings: the first if it is falsy, else the second
AndStr(a, b) == IF a = "" THEN a ELSE b

\* The list countActive filters with Boolean, as a function of its index.
CountActiveEntries(f) ==
  <<f["accountid"],
    f["qual_date_from"],
    f["qual_date_to"],
    AndStr(f["trade_count_op"], f["trade_count_val"]),
    AndStr(f["days_op"], f["days_val"]),
    AndStr(f["profit_op"], f["profit_val"]),
    IF f["last_trade_preset"] = "custom" THEN f["last_trade_from"]
                                         ELSE f["last_trade_preset"],
    AndStr(f["days_from_last_trade_op"], f["days_from_last_trade_val"]),
    AndStr(f["deposit_count_op"], f["deposit_count_val"]),
    AndStr(f["total_deposit_op"], f["total_deposit_val"]),
    AndStr(f["balance_op"], f["balance_val"]),
    AndStr(f["credit_op"], f["credit_val"]),
    AndStr(f["equity_op"], f["equity_val"]),
    AndStr(f["live_equity_op"], f["live_equity_val"]),
    AndStr(f["max_open_trade_op"], f["max_open_trade_val"]),
    AndStr(f["max_volume_op"], f["max_volume_val"]),
    AndStr(f["turnover_op"], f["turnover_val"]),
    f["assigned_to"],
    f["task_id"],
    f["active"],
    f["active_ftd"]>>

countActive(f) ==
  LET e == CountActiveEntries(f)
  IN  Cardinality({i \in 1..Len(e) : e[i] # ""})

\* ------------------------------------------------------------------------
\* Column registry (DEFAULT_COLS, COL_DEF_MAP) and the pinned columns
\* ------------------------------------------------------------------------

DEFAULT_COL_ORDER ==
  <<"tasks", "score", "agent_name", "sales_client_potential", "age",
    "client_qualification_date", "days_in_retention", "trade_count",
    "total_profit", "last_trade_date", "days_from_last_trade",
    "deposit_count", "total_deposit", "balance", "credit", "equity",
    "open_pnl", "live_equity", "max_open_trade", "max_volume", "win_rate",
    "avg_trade_size", "turnover", "active", "active_ftd">>

RegistryKeys == {DEFAULT_COL_ORDER[i] : i \in 1..Len(DEFAULT_COL_ORDER)}

\* COL_DEF_MAP[k]: truthy exactly for the registry keys
COL_DEF_MAP(k) == k \in RegistryKeys

\* filterType of a column header; the pinned columns render a ColTextFilter
FilterType(k) ==
  CASE k \in {"accountid", "full_name", "agent_name"} -> "text"
    [] k \in {"score", "balance", "credit", "equity", "live_equity",
              "max_open_trade", "max_volume", "turnover"} -> "numeric"
    [] k \in {"client_qualification_date", "last_trade_date"} -> "date"
    [] OTHER -> "none"

\* COL_DEF_MAP[key]?.filterParamKey || key without the override
FilterParamKeyIgnored(k) == k

\* COL_DEF_MAP[key]?.filterParamKey || key
FilterParamKey(k) ==
  CASE k = "agent_name" -> "agent"
    [] k = "client_qualification_date" -> "reg_date"
    [] k = "last_trade_date" -> "last_call"
    [] OTHER -> k

\* ------------------------------------------------------------------------
\* Per-column filters (type ColFilter).  A ColFilters value is a function
\* whose domain is the set of column keys that have an entry.
\* ------------------------------------------------------------------------

TextF(v) ==
  [type |-> "text", value |-> v, op |-> UNDEFINED, val |-> UNDEFINED,
   val2 |-> UNDEFINED, preset |-> UNDEFINED, from |-> UNDEFINED,
   to |-> UNDEFINED]

NumF(o, v, v2) ==
  [type |-> "numeric", value |-> UNDEFINED, op |-> o, val |-> v,
   val2 |-> v2, preset |-> UNDEFINED, from |-> UNDEFINED, to |-> UNDEFINED]

DateF(p, f, t) ==
  [type |-> "date", value |-> UNDEFINED, op |-> UNDEFINED,
   val |-> UNDEFINED, val2 |-> UNDEFINED, preset |-> p, from |-> f,
   to |-> t]

NoColFilters == [k \in {} |-> TextF("")]

\* truthiness of an optional string
Truthy(x) == x # "" /\ x # UNDEFINED

\* const next = { ...prev }; delete next[col]
DeleteKey(prev, col) == [k \in (DOMAIN prev) \ {col} |-> prev[k]]

\* { ...prev, [col]: entry }
PutKey(prev, col, entry) ==
  [k \in (DOMAIN prev) \cup {col} |-> IF k = col THEN entry ELSE prev[k]]

\* ColTextFilter.handleChange
ColTextChange(prev, col, v) ==
  IF v = "" THEN DeleteKey(prev, col) ELSE PutKey(prev, col, TextF(v))

\* ColNumericFilter.update
ColNumericUpdate(prev, col, newOp, newVal, newVal2) ==
  IF newVal = "" THEN DeleteKey(prev, col)
  ELSE PutKey(prev, col,
         NumF(newOp, newVal,
              IF newOp = "between" /\ Truthy(newVal2) THEN newVal2
                                                      ELSE UNDEFINED))

\* ColDateFilter.getPresetRange: the dates are today's; one fixed day stands
\* for every date a preset resolves to
PresetDay == "2024-05-01"

getPresetRange(p) ==
  IF p \in {"today", "this_week", "this_month"}
  THEN [from |-> PresetDay, to |-> PresetDay]
  ELSE [from |-> "", to |-> ""]

\* ColDateFilter.update
ColDateUpdate(prev, col, p, f, t) ==
  IF p = "" THEN DeleteKey(prev, col)
  ELSE IF p = "custom"
       THEN PutKey(prev, col,
              DateF("custom", IF f = UNDEFINED THEN "" ELSE f,
                              IF t = UNDEFINED THEN "" ELSE t))
       ELSE PutKey(prev, col,
              DateF(p, getPresetRange(p).from, getPresetRange(p).to))

\* ------------------------------------------------------------------------
\* The query builder: the parameter object load passes to api.get
\* ------------------------------------------------------------------------

EmptyParams == [k \in {} |-> ""]

\* The entries load writes into colFilterParams for one column-filter entry.
ColParamsOf(key, filter) ==
  LET pk == "filter_" \o FilterParamKey(key)
  IN  IF filter.type = "text" /\ Truthy(filter.value)
      THEN (pk :> filter.value)
      ELSE IF filter.type = "numeric" /\ Truthy(filter.val)
      THEN ((pk \o "_op") :> filter.op) @@ ((pk \o "_val") :> filter.val)
           @@ (IF filter.op = "between" /\ Truthy(filter.val2)
               THEN ((pk \o "_val2") :> filter.val2) ELSE EmptyParams)
      ELSE IF filter.type = "date"
      THEN IF Truthy(filter.preset) /\ filter.preset # "custom"
           THEN ((pk \o "_preset") :> filter.preset)
           ELSE IF Truthy(filter.from)
           THEN ((pk \o "_from") :> filter.from)
                @@ (IF Truthy(filter.to)
                    THEN ((pk \o "_to") :> filter.to) ELSE EmptyParams)
           ELSE EmptyParams
      ELSE EmptyParams

RECURSIVE ColFilterParamsOver(_, _)
ColFilterParamsOver(cf, keys) ==
  IF keys = {} THEN EmptyParams
  ELSE LET k == CHOOSE x \in keys : TRUE
       IN  ColParamsOf(k, cf[k]) @@ ColFilterParamsOver(cf, keys \ {k})

\* for (const [key, filter] of Object.entries(cf)) ...
ColFilterParams(cf) == ColFilterParamsOver(cf, DOMAIN cf)

\* The global-filter keys load sends as they are, empty or not.
RawKeys ==
  {"accountid", "active", "active_ftd"} \cup {OpKey(p) : p \in NumericPrefixes}

\* The value load gives the parameter of a global filter field.
GlobalParamValue(f, k) == IF k \in RawKeys THEN f[k] ELSE OrUndefined(f[k])

\* The global part of the params object (last_trade_preset is never sent);
\* activity_days: actDays || 35.
GlobalParams(f, actDays) ==
  [k \in (FilterKeys \ {"last_trade_preset"}) \cup {"activity_days"} |->
     IF k = "activity_days" THEN (IF actDays = "" THEN "35" ELSE actDays)
     ELSE GlobalParamValue(f, k)]

\* The HTTP client serialises every key whose value is not undefined.
Serialised(m) == [k \in {x \in DOMAIN m : m[x] # UNDEFINED} |-> m[k]]

\* A query built without the spread of colFilterParams
BuildQueryNoColumnFilters(p, col, dir, f, actDays, cf) ==
  [page |-> p, page_size |-> PAGE_SIZE, sort_by |-> col, sort_dir |-> dir,
   params |-> Serialised(GlobalParams(f, actDays))]

\* The query issued by load(p, col, dir, f, actDays, cf).
BuildQuery(p, col, dir, f, actDays, cf) ==
  [page |-> p, page_size |-> PAGE_SIZE, sort_by |-> col, sort_dir |-> dir,
   params |-> Serialised(ColFilterParams(cf) @@ GlobalParams(f, actDays))]

\* ------------------------------------------------------------------------
\* Filter chips (filterChips)
\* ------------------------------------------------------------------------

\* Keys of the global chips rendered for an applied filter set.
GlobalChipKeys(a) ==
  {k \in {"accountid", "assigned_to", "task_id", "active", "active_ftd"} :
     a[k] # ""}
  \cup (IF a["qual_date_from"] # "" \/ a["qual_date_to"] # ""
        THEN {"qual_date"} ELSE {})
  \cup {p \in NumericPrefixes : a[OpKey(p)] # "" /\ a[ValKey(p)] # ""}
  \cup (IF (a["last_trade_preset"] # "" /\ a["last_trade_preset"] # "custom")
           \/ a["last_trade_from"] # "" \/ a["last_trade_to"] # ""
        THEN {"last_trade"} ELSE {})

\* The fields a global chip's onDismiss passes to dismiss.
DismissFields(c) ==
  CASE c = "qual_date" -> [k \in {"qual_date_from", "qual_date_to"} |-> ""]
    [] c = "last_trade" ->
         [k \in {"last_trade_preset", "last_trade_from", "last_trade_to"} |-> ""]
    [] c \in NumericPrefixes -> [k \in {OpKey(c), ValKey(c)} |-> ""]
    [] OTHER -> [k \in {c} |-> ""]

\* Whether a column-filter entry renders a chip.
ColChipShown(cf) ==
  \/ cf.type = "text" /\ Truthy(cf.value)
  \/ cf.type = "numeric" /\ Truthy(cf.val)
  \/ cf.type = "date"
     /\ \/ Truthy(cf.preset) /\ cf.preset # "custom"
        \/ Truthy(cf.from)

\* Column keys of the column chips rendered for colFilters.
ColChipKeys(cfs) == {k \in DOMAIN cfs : ColChipShown(cfs[k])}

\* Object.keys(colFilters).length
activeColFilterCount(cfs) == Cardinality(DOMAIN cfs)

\* Math.ceil(total / PAGE_SIZE)
CeilDiv(a, b) == (a + b - 1) \div b

\* getPresetDates of the global last-trade preset selector: the dates are
\* today's; one fixed day stands for every date a preset resolves to
getPresetDates(preset) ==
  IF preset \in {"today", "yesterday", "last7", "this_month", "last_month",
                 "this_year", "last_year"}
  THEN [from |-> PresetDay, to |-> PresetDay]
  ELSE [from |-> "", to |-> ""]

\* ------------------------------------------------------------------------
\* Bounds and input sets of the model
\* ------------------------------------------------------------------------

\* Page-fetch requests issued in one behaviour (the mount request included).
MaxRequests == 3

\* Totals the server reports.
Totals == {0, 120}

\* Columns whose header the user clicks to sort.
SortInputs == {"accountid", "balance"}

\* (field, value) pairs the user types into the filter panel.
FieldInputs == {<<"accountid", "AB1">>, <<"accountid", "">>}

\* Presets the user picks in the last-trade selector.
PresetInputs == {"", "today", "custom"}

\* Values the user types into the activity-window input.
ActivityInputs == {"35", "7"}

\* (field, value) pairs of the filter-panel specification.
PanelInputs ==
  {<<"accountid", "AB1">>, <<"accountid", "">>,
   <<"balance_op", "gt">>, <<"balance_op", "">>,
   <<"balance_val", "500">>, <<"balance_val", "">>,
   <<"last_trade_from", "2024-04-01">>, <<"last_trade_from", "">>}

\* Header inputs of the column filters.
ColTextInputs == {<<"agent_name", "x">>, <<"agent_name", "">>}

ColNumCols == {"balance"}

ColNumOps == {"gt", "between"}

ColNumVals == {"5", ""}

ColNumVals2 == {"9", ""}

ColDateCols == {"last_trade_date"}

ColDatePresets == {"", "today", "custom"}

ColDateDays == {"2024-04-01", ""}

\* ------------------------------------------------------------------------
\* State
\* ------------------------------------------------------------------------

VARIABLES
  page, sortBy, sortDir,        \* useState: page, sortBy, sortDir
  draft, applied,               \* useState: draft, applied
  appliedIsConst,               \* applied is the EMPTY_FILTERS object itself
  activityDays,                 \* useState: activityDays
  colFilters,                   \* useState: colFilters
  debouncedColFilters,          \* useState: debouncedColFilters
  timers,                       \* pending debounce timers, each as the
                                \* colFilters its callback captured
  data, loading, error,         \* useState: data, loading, error
  nIssued,                      \* number of queries load has sent
  lastQuery,                    \* the query load sent last
  prevPage,                     \* the page of the query sent before that one
  inflight,                     \* numbers of the requests awaiting a response
  dismissedCols, dismissedChips,\* chips dismissed and not set again since
  mounted,                      \* the component is mounted
  colOrder, colOrderLoaded,     \* useState: colOrder, colOrderLoaded
  dragColRef, dragOverCol,      \* dragColRef.current, useState dragOverCol
  stored,                       \* the preference store: { order: string[] | null }
  prefGet,                      \* the mount GET: "pending", "settled", "done"
  puts,                         \* orders of the PUTs sent and not yet delivered
  lastDrop                      \* history: what the last drop did, "none",
                                \* "noop" or "moved"

gridVars ==
  <<page, sortBy, sortDir, draft, applied, appliedIsConst, activityDays,
    colFilters, debouncedColFilters, timers, data, loading, error,
    nIssued, lastQuery, prevPage, inflight, dismissedCols, dismissedChips,
    mounted>>

colVars ==
  <<colOrder, colOrderLoaded, dragColRef, dragOverCol, stored, prefGet, puts,
    lastDrop>>

vars == <<gridVars, colVars>>

\* data === null
\* Lengths of data.clients a response can carry: no row or a full page, and
\* no row when the server reports a total of 0.
ClientRows(total) == IF total = 0 THEN {0} ELSE {0, PAGE_SIZE}

NoData == [loaded |-> FALSE, id |-> 0, total |-> 0, rows |-> 0]

\* const clients = data?.clients ?? [], as its length
clients == IF data.loaded THEN data.rows ELSE 0

\* const totalPages = data ? Math.ceil(data.total / PAGE_SIZE) : 0
totalPages == IF data.loaded THEN CeilDiv(data.total, PAGE_SIZE) ELSE 0

\* The state after mount: the useState initial values, the debounce effect
\* has armed its first timer and the load effect has sent the first query.
InitGrid ==
  /\ page = 1 /\ sortBy = "accountid" /\ sortDir = "asc"
  /\ draft = EMPTY_FILTERS /\ applied = EMPTY_FILTERS
  /\ appliedIsConst = TRUE
  /\ activityDays = "35"
  /\ colFilters = NoColFilters /\ debouncedColFilters = NoColFilters
  /\ timers = {NoColFilters}
  /\ data = NoData /\ loading = TRUE /\ error = ""
  /\ nIssued = 1
  /\ lastQuery = BuildQuery(1, "accountid", "asc", EMPTY_FILTERS, "35",
                            NoColFilters)
  /\ prevPage = 1
  /\ inflight = {1}
  /\ dismissedCols = {} /\ dismissedChips = {}
  /\ mounted = TRUE

\* { order: null } and { order: [...] } of the preference store
NullPref == [isNull |-> TRUE, order |-> <<>>]

Pref(order) == [isNull |-> FALSE, order |-> order]

\* The column-order state while the grid is in use: the preference was
\* read and no write is under way.
ColIdle ==
  /\ colOrder = DEFAULT_COL_ORDER /\ colOrderLoaded = TRUE
  /\ dragColRef = "" /\ dragOverCol = ""
  /\ stored = NullPref /\ prefGet = "done" /\ puts = <<>>
  /\ lastDrop = "none"

Init == InitGrid /\ ColIdle

\* ------------------------------------------------------------------------
\* The load effect and load
\* ------------------------------------------------------------------------

\* Whether setApplied changes the identity of applied: "fresh" is a new
\* object ({ ...draft }, { ...prev, ...fields }), "const" is EMPTY_FILTERS,
\* "same" is no setApplied call.
AppliedChanged(aid) == aid = "fresh" \/ (aid = "const" /\ ~appliedIsConst)

\* The render that commits the new values of the load effect's dependencies
\* [page, sortBy, sortDir, applied, activityDays, debouncedColFilters], and
\* the effect: when one of them changed it calls load, which sets loading,
\* clears error and sends the query.
LoadEffect(np, nsb, nsd, na, aid, nact, ndeb, debChanged) ==
  /\ mounted /\ mounted' = mounted
  /\ page' = np /\ sortBy' = nsb /\ sortDir' = nsd
  /\ applied' = na
  /\ appliedIsConst' = (IF aid = "same" THEN appliedIsConst ELSE aid = "const")
  /\ activityDays' = nact
  /\ debouncedColFilters' = ndeb
  /\ IF \/ np # page \/ nsb # sortBy \/ nsd # sortDir
        \/ AppliedChanged(aid) \/ nact # activityDays \/ debChanged
     THEN /\ nIssued < MaxRequests
          /\ nIssued' = nIssued + 1
          /\ lastQuery' = BuildQuery(np, nsb, nsd, na, nact, ndeb)
          /\ prevPage' = lastQuery.page
          /\ inflight' = inflight \cup {nIssued + 1}
          /\ loading' = TRUE
          /\ error' = ""
     ELSE UNCHANGED <<nIssued, lastQuery, prevPage, inflight, loading, error>>

\* A render in which no dependency of the load effect changed.
NoLoad ==
  LoadEffect(page, sortBy, sortDir, applied, "same", activityDays,
             debouncedColFilters, FALSE)

\* A continuation of load that clears the rows when the request fails
RespondClearOnError(id, ok, total) ==
  /\ id \in inflight
  /\ inflight' = inflight \ {id}
  /\ IF ~mounted
     THEN UNCHANGED <<data, error, loading>>
     ELSE /\ IF ok
             THEN /\ \E n \in ClientRows(total) :
                       data' = [loaded |-> TRUE, id |-> id, total |-> total,
                                rows |-> n]
                  /\ error' = error
             ELSE /\ data' = NoData
                  /\ error' = "Failed to load retention data"
          /\ loading' = FALSE
  /\ UNCHANGED <<page, sortBy, sortDir, draft, applied, appliedIsConst,
                 activityDays, colFilters, debouncedColFilters, timers,
                 nIssued, lastQuery, prevPage, dismissedCols, dismissedChips,
                 mounted>>
  /\ UNCHANGED colVars

\* The continuation of load after the await: the response of request id
\* arrives (ok, with the reported total) or the request fails.  On an
\* unmounted component its setState calls change nothing.
Respond(id, ok, total) ==
  /\ id \in inflight
  /\ inflight' = inflight \ {id}
  /\ IF ~mounted
     THEN UNCHANGED <<data, error, loading>>
     ELSE /\ IF ok
             THEN /\ \E n \in ClientRows(total) :
                       data' = [loaded |-> TRUE, id |-> id, total |-> total,
                                rows |-> n]
                  /\ error' = error
             ELSE /\ data' = data
                  /\ error' = "Failed to load retention data"
          /\ loading' = FALSE
  /\ UNCHANGED <<page, sortBy, sortDir, draft, applied, appliedIsConst,
                 activityDays, colFilters, debouncedColFilters, timers,
                 nIssued, lastQuery, prevPage, dismissedCols, dismissedChips,
                 mounted>>
  /\ UNCHANGED colVars

\* ------------------------------------------------------------------------
\* Sort, pagination, activity window
\* ------------------------------------------------------------------------

\* handleSort without setSortDir('asc') for a new column
handleSortKeepDir(col) ==
  /\ LoadEffect(1, col,
                IF sortBy = col
                THEN (IF sortDir = "asc" THEN "desc" ELSE "asc")
                ELSE sortDir,
                applied, "same", activityDays, debouncedColFilters, FALSE)
  /\ UNCHANGED <<draft, colFilters, timers, data, dismissedCols,
                 dismissedChips>>
  /\ UNCHANGED colVars

\* handleSort without setPage(1)
handleSortKeepPage(col) ==
  /\ LoadEffect(page, col,
                IF sortBy = col
                THEN (IF sortDir = "asc" THEN "desc" ELSE "asc")
                ELSE "asc",
                applied, "same", activityDays, debouncedColFilters, FALSE)
  /\ UNCHANGED <<draft, colFilters, timers, data, dismissedCols,
                 dismissedChips>>
  /\ UNCHANGED colVars

handleSort(col) ==
  /\ LoadEffect(1, col,
                IF sortBy = col
                THEN (IF sortDir = "asc" THEN "desc" ELSE "asc")
                ELSE "asc",
                applied, "same", activityDays, debouncedColFilters, FALSE)
  /\ UNCHANGED <<draft, colFilters, timers, data, dismissedCols,
                 dismissedChips>>
  /\ UNCHANGED colVars

\* The Prev button: setPage((p) => Math.max(1, p - 1))
PrevPage ==
  /\ totalPages > 1 /\ page # 1 /\ ~loading
  /\ LoadEffect(IF page - 1 > 1 THEN page - 1 ELSE 1, sortBy, sortDir,
                applied, "same", activityDays, debouncedColFilters, FALSE)
  /\ UNCHANGED <<draft, colFilters, timers, data, dismissedCols,
                 dismissedChips>>
  /\ UNCHANGED colVars

\* The Next button: setPage((p) => Math.min(totalPages, p + 1))
NextPage ==
  /\ totalPages > 1 /\ page # totalPages /\ ~loading
  /\ LoadEffect(IF page + 1 < totalPages THEN page + 1 ELSE totalPages,
                sortBy, sortDir, applied, "same", activityDays,
                debouncedColFilters, FALSE)
  /\ UNCHANGED <<draft, colFilters, timers, data, dismissedCols,
                 dismissedChips>>
  /\ UNCHANGED colVars

\* The activity-window input: onChange={(e) => setActivityDays(e.target.value)}
SetActivityDays(v) ==
  /\ v # activityDays
  /\ LoadEffect(page, sortBy, sortDir, applied, "same", v,
                debouncedColFilters, FALSE)
  /\ UNCHANGED <<draft, colFilters, timers, data, dismissedCols,
                 dismissedChips>>
  /\ UNCHANGED colVars

\* ------------------------------------------------------------------------
\* Global filters: draft, applied, chips
\* ------------------------------------------------------------------------

\* The global chip a filter field belongs to.
ChipOfField(k) ==
  CHOOSE c \in {"accountid", "assigned_to", "task_id", "active",
                "active_ftd", "qual_date", "last_trade"} \cup NumericPrefixes :
    k \in DOMAIN DismissFields(c)

\* Whether the input of a draft field accepts typing: a numeric value input
\* is disabled while its operator is empty, the custom last-trade dates are
\* rendered only for the preset "custom".
FieldEditable(key) ==
  /\ \A p \in NumericPrefixes : key = ValKey(p) => draft[OpKey(p)] # ""
  /\ key \in {"last_trade_from", "last_trade_to"}
       => draft["last_trade_preset"] = "custom"

\* A field editor that writes the edit through to the applied filters
setFieldLive(key, val) ==
  /\ FieldEditable(key)
  /\ val # draft[key]
  /\ draft' = [draft EXCEPT ![key] = val]
  /\ LoadEffect(1, sortBy, sortDir, [draft EXCEPT ![key] = val], "fresh",
                activityDays, debouncedColFilters, FALSE)
  /\ dismissedChips' = dismissedChips \ {ChipOfField(key)}
  /\ UNCHANGED <<colFilters, timers, data, dismissedCols>>
  /\ UNCHANGED colVars

\* setField = (key, val) => setDraft((prev) => ({ ...prev, [key]: val }))
setField(key, val) ==
  /\ FieldEditable(key)
  /\ val # draft[key]
  /\ draft' = [draft EXCEPT ![key] = val]
  /\ NoLoad
  /\ dismissedChips' = dismissedChips \ {ChipOfField(key)}
  /\ UNCHANGED <<colFilters, timers, data, dismissedCols>>
  /\ UNCHANGED colVars

\* onChange of the last-trade preset selector
LastTradePresetChange(p) ==
  /\ p # draft["last_trade_preset"]
  /\ draft' =
       IF p = "" \/ p = "custom"
       THEN Merge(draft, [k \in {"last_trade_preset", "last_trade_from",
                                 "last_trade_to"} |->
                            IF k = "last_trade_preset" THEN p ELSE ""])
       ELSE Merge(draft, [k \in {"last_trade_preset", "last_trade_from",
                                 "last_trade_to"} |->
                            CASE k = "last_trade_preset" -> p
                              [] k = "last_trade_from" -> getPresetDates(p).from
                              [] OTHER -> getPresetDates(p).to])
  /\ NoLoad
  /\ dismissedChips' = dismissedChips \ {"last_trade"}
  /\ UNCHANGED <<colFilters, timers, data, dismissedCols>>
  /\ UNCHANGED colVars

applyFilters ==
  /\ LoadEffect(1, sortBy, sortDir, draft, "fresh", activityDays,
                debouncedColFilters, FALSE)
  /\ UNCHANGED <<draft, colFilters, timers, data, dismissedCols,
                 dismissedChips>>
  /\ UNCHANGED colVars

clearFilters ==
  /\ draft' = EMPTY_FILTERS
  /\ LoadEffect(1, sortBy, sortDir, EMPTY_FILTERS, "const", activityDays,
                debouncedColFilters, FALSE)
  /\ UNCHANGED <<colFilters, timers, data, dismissedCols,
                 dismissedChips>>
  /\ UNCHANGED colVars

\* A dismissal that leaves the draft as it was
dismissAppliedOnly(chip) ==
  /\ chip \in GlobalChipKeys(applied)
  /\ LoadEffect(1, sortBy, sortDir, Merge(applied, DismissFields(chip)),
                "fresh", activityDays, debouncedColFilters, FALSE)
  /\ dismissedChips' = dismissedChips \cup {chip}
  /\ UNCHANGED <<draft, colFilters, timers, data, dismissedCols>>
  /\ UNCHANGED colVars

\* onDismiss of a rendered global chip: dismiss(fields)
dismiss(chip) ==
  /\ chip \in GlobalChipKeys(applied)
  /\ draft' = Merge(draft, DismissFields(chip))
  /\ LoadEffect(1, sortBy, sortDir, Merge(applied, DismissFields(chip)),
                "fresh", activityDays, debouncedColFilters, FALSE)
  /\ dismissedChips' = dismissedChips \cup {chip}
  /\ UNCHANGED <<colFilters, timers, data, dismissedCols>>
  /\ UNCHANGED colVars

\* ------------------------------------------------------------------------
\* Column filters and the debounce effect
\* ------------------------------------------------------------------------

\* A debounce effect that arms a timer without clearing the one before
ColFiltersChangedNoClear(next) ==
  /\ colFilters' = next
  /\ timers' = timers \cup {next}
  /\ NoLoad
  /\ UNCHANGED <<draft, data, dismissedChips>>
  /\ UNCHANGED colVars

\* A render after setColFilters: colFilters is a new object, so the debounce
\* effect runs: its cleanup and its first line clear the timer held by
\* colFiltersDebounceRef (the one armed for the current colFilters, if it is
\* still pending), and it arms a timer whose callback captures the new
\* colFilters; no dependency of the load effect changed.
ColFiltersChanged(next) ==
  /\ colFilters' = next
  /\ timers' = (timers \ {colFilters}) \cup {next}
  /\ NoLoad
  /\ UNCHANGED <<draft, data, dismissedChips>>
  /\ UNCHANGED colVars

\* What the header inputs of a column show for the current filter.
ShownText(col) ==
  IF col \in DOMAIN colFilters /\ colFilters[col].type = "text"
  THEN colFilters[col].value ELSE ""

ShownOp(col) ==
  IF col \in DOMAIN colFilters /\ colFilters[col].type = "numeric"
  THEN colFilters[col].op ELSE "gt"

ShownVal(col) ==
  IF col \in DOMAIN colFilters /\ colFilters[col].type = "numeric"
  THEN colFilters[col].val ELSE ""

ShownVal2(col) ==
  IF col \in DOMAIN colFilters /\ colFilters[col].type = "numeric"
     /\ colFilters[col].val2 # UNDEFINED
  THEN colFilters[col].val2 ELSE ""

ShownPreset(col) ==
  IF col \in DOMAIN colFilters /\ colFilters[col].type = "date"
     /\ colFilters[col].preset # UNDEFINED
  THEN colFilters[col].preset ELSE ""

ShownFrom(col) ==
  IF col \in DOMAIN colFilters /\ colFilters[col].type = "date"
     /\ colFilters[col].from # UNDEFINED
  THEN colFilters[col].from ELSE ""

ShownTo(col) ==
  IF col \in DOMAIN colFilters /\ colFilters[col].type = "date"
     /\ colFilters[col].to # UNDEFINED
  THEN colFilters[col].to ELSE ""

\* ColTextFilter: typing in the input, or its clear button (handleChange(''))
ColTextEdit(col, v) ==
  /\ FilterType(col) = "text"
  /\ v # ShownText(col)
  /\ ColFiltersChanged(ColTextChange(colFilters, col, v))
  /\ dismissedCols' = IF v = "" THEN dismissedCols ELSE dismissedCols \ {col}

\* ColNumericFilter: the operator select, update(newOp, val, val2)
ColNumOpEdit(col, newOp) ==
  /\ FilterType(col) = "numeric"
  /\ newOp # ShownOp(col)
  /\ ColFiltersChanged(ColNumericUpdate(colFilters, col, newOp, ShownVal(col),
                                        ShownVal2(col)))
  /\ dismissedCols' = dismissedCols

\* ColNumericFilter: the value input, update(op, newVal, val2), and the clear
\* button, update(op, '', '')
ColNumValEdit(col, newVal) ==
  /\ FilterType(col) = "numeric"
  /\ newVal # ShownVal(col)
  /\ ColFiltersChanged(ColNumericUpdate(colFilters, col, ShownOp(col), newVal,
                                        IF newVal = "" THEN ""
                                        ELSE ShownVal2(col)))
  /\ dismissedCols' =
       IF newVal = "" THEN dismissedCols ELSE dismissedCols \ {col}

\* ColNumericFilter: the second input, rendered for "between" with a value,
\* update(op, val, newVal2)
ColNumVal2Edit(col, newVal2) ==
  /\ FilterType(col) = "numeric"
  /\ ShownOp(col) = "between" /\ ShownVal(col) # ""
  /\ newVal2 # ShownVal2(col)
  /\ ColFiltersChanged(ColNumericUpdate(colFilters, col, ShownOp(col),
                                        ShownVal(col), newVal2))
  /\ dismissedCols' = dismissedCols \ {col}

\* ColDateFilter: the preset select, update(p)
ColDatePresetEdit(col, p) ==
  /\ FilterType(col) = "date"
  /\ p # ShownPreset(col)
  /\ ColFiltersChanged(ColDateUpdate(colFilters, col, p, UNDEFINED, UNDEFINED))
  /\ dismissedCols' = IF p = "" THEN dismissedCols ELSE dismissedCols \ {col}

\* ColDateFilter: the from input of a custom range, update('custom', f, to)
ColDateFromEdit(col, f) ==
  /\ FilterType(col) = "date"
  /\ ShownPreset(col) = "custom"
  /\ f # ShownFrom(col)
  /\ ColFiltersChanged(ColDateUpdate(colFilters, col, "custom", f,
                                     ShownTo(col)))
  /\ dismissedCols' = dismissedCols \ {col}

\* ColDateFilter: the to input of a custom range, update('custom', from, t)
ColDateToEdit(col, t) ==
  /\ FilterType(col) = "date"
  /\ ShownPreset(col) = "custom"
  /\ t # ShownTo(col)
  /\ ColFiltersChanged(ColDateUpdate(colFilters, col, "custom",
                                     ShownFrom(col), t))
  /\ dismissedCols' = dismissedCols \ {col}

\* The "Clear Column Filters (n)" button, rendered while n > 0
clearColFilters ==
  /\ activeColFilterCount(colFilters) > 0
  /\ ColFiltersChanged(NoColFilters)
  /\ dismissedCols' = dismissedCols

\* onDismiss of a rendered column chip: dismissCol
dismissCol(col) ==
  /\ col \in ColChipKeys(colFilters)
  /\ ColFiltersChanged(DeleteKey(colFilters, col))
  /\ dismissedCols' = dismissedCols \cup {col}

\* "Clear all" of the chip bar, rendered while a chip is:
\* clearFilters(); clearColFilters()
ChipBarClearAll ==
  /\ GlobalChipKeys(applied) # {} \/ ColChipKeys(colFilters) # {}
  /\ draft' = EMPTY_FILTERS
  /\ colFilters' = NoColFilters
  /\ timers' = (timers \ {colFilters}) \cup {NoColFilters}
  /\ LoadEffect(1, sortBy, sortDir, EMPTY_FILTERS, "const", activityDays,
                debouncedColFilters, FALSE)
  /\ UNCHANGED <<data, dismissedCols, dismissedChips>>
  /\ UNCHANGED colVars

\* A pending debounce timer fires, 400 ms after it was armed:
\* setDebouncedColFilters(colFilters); setPage(1), with the colFilters its
\* callback captured.  The object it commits is never the one
\* debouncedColFilters holds, so the load effect runs.  On an unmounted
\* component the two setState calls change nothing.
TimerFire ==
  \E t \in timers :
    /\ timers' = timers \ {t}
    /\ IF mounted
       THEN LoadEffect(1, sortBy, sortDir, applied, "same", activityDays, t,
                       TRUE)
       ELSE UNCHANGED <<page, sortBy, sortDir, applied, appliedIsConst,
                        activityDays, debouncedColFilters, nIssued,
                        lastQuery, prevPage, inflight, loading, error,
                        mounted>>
    /\ UNCHANGED <<draft, colFilters, data, dismissedCols, dismissedChips>>
    /\ UNCHANGED colVars

\* An unmount whose cleanup leaves the debounce timer armed
UnmountKeepsTimer ==
  /\ mounted
  /\ mounted' = FALSE
  /\ UNCHANGED <<page, sortBy, sortDir, draft, applied, appliedIsConst,
                 activityDays, colFilters, debouncedColFilters, timers,
                 data, loading, error, nIssued, lastQuery, prevPage,
                 inflight, dismissedCols, dismissedChips>>
  /\ UNCHANGED colVars

\* The component unmounts: the cleanup of the debounce effect clears the
\* timer colFiltersDebounceRef holds, the one armed for the current
\* colFilters.  No other effect has a cleanup; requests in flight stay so.
Unmount ==
  /\ mounted
  /\ mounted' = FALSE
  /\ timers' = timers \ {colFilters}
  /\ UNCHANGED <<page, sortBy, sortDir, draft, applied, appliedIsConst,
                 activityDays, colFilters, debouncedColFilters,
                 data, loading, error, nIssued, lastQuery, prevPage,
                 inflight, dismissedCols, dismissedChips>>
  /\ UNCHANGED colVars

\* ------------------------------------------------------------------------
\* The grid
\* ------------------------------------------------------------------------

\* Every handler of the grid, with one text field of the filter panel and one
\* text column filter as the filter inputs.
Next ==
  \/ \E id \in inflight, ok \in BOOLEAN, t \in Totals : Respond(id, ok, t)
  \/ \E c \in SortInputs : handleSort(c)
  \/ PrevPage
  \/ NextPage
  \/ \E v \in ActivityInputs : SetActivityDays(v)
  \/ \E kv \in FieldInputs : setField(kv[1], kv[2])
  \/ applyFilters
  \/ clearFilters
  \/ \E c \in GlobalChipKeys(applied) : dismiss(c)
  \/ \E kv \in ColTextInputs : ColTextEdit(kv[1], kv[2])
  \/ clearColFilters
  \/ \E c \in ColChipKeys(colFilters) : dismissCol(c)
  \/ ChipBarClearAll
  \/ TimerFire

Spec == Init /\ [][Next]_vars

\* The filter panel on an unsorted first page: every handler that writes
\* draft or applied, with an operator, a value, a text and a date field as
\* the inputs.
NextFilters ==
  \/ \E id \in inflight : Respond(id, TRUE, 0)
  \/ \E kv \in PanelInputs : setField(kv[1], kv[2])
  \/ \E p \in PresetInputs : LastTradePresetChange(p)
  \/ applyFilters
  \/ clearFilters
  \/ \E c \in GlobalChipKeys(applied) : dismiss(c)
  \/ ChipBarClearAll
  \/ TimerFire

SpecFilters == Init /\ [][NextFilters]_vars

\* The column-header filters on an unsorted first page: every handler that
\* writes colFilters, with one numeric and one date column.
NextColFilters ==
  \/ \E id \in inflight : Respond(id, TRUE, 0)
  \/ \E c \in ColNumCols, o \in ColNumOps : ColNumOpEdit(c, o)
  \/ \E c \in ColNumCols, v \in ColNumVals : ColNumValEdit(c, v)
  \/ \E c \in ColNumCols, v \in ColNumVals2 : ColNumVal2Edit(c, v)
  \/ \E c \in ColDateCols, p \in ColDatePresets : ColDatePresetEdit(c, p)
  \/ \E c \in ColDateCols, d \in ColDateDays : ColDateFromEdit(c, d)
  \/ \E c \in ColDateCols, d \in ColDateDays : ColDateToEdit(c, d)
  \/ clearColFilters
  \/ \E c \in ColChipKeys(colFilters) : dismissCol(c)
  \/ ChipBarClearAll
  \/ TimerFire

SpecColFilters == Init /\ [][NextColFilters]_vars

\* ------------------------------------------------------------------------
\* Column order: the load-time merge, drag and drop, reset, persistence
\* ------------------------------------------------------------------------

Range(seq) == {seq[i] : i \in 1..Len(seq)}

\* Array.prototype.indexOf, 1-based; 0 when the key is absent
IndexOf(seq, x) ==
  IF x \in Range(seq) THEN CHOOSE i \in 1..Len(seq) : seq[i] = x ELSE 0

\* next.splice(i, 1), with i 1-based
RemoveAt(seq, i) == SubSeq(seq, 1, i - 1) \o SubSeq(seq, i + 1, Len(seq))

\* next.splice(i, 0, x), with i 1-based: x becomes the i-th element
InsertAt(seq, i, x) ==
  SubSeq(seq, 1, i - 1) \o <<x>> \o SubSeq(seq, i, Len(seq))

\* The merge without the missing registry columns
MergeOrderSavedOnly(saved) == SelectSeq(saved, LAMBDA k : COL_DEF_MAP(k))

\* The merge without the filter of unknown keys
MergeOrderKeepUnknown(saved) ==
  saved \o SelectSeq(DEFAULT_COL_ORDER, LAMBDA k : k \notin Range(saved))

\* [...validSaved, ...missing] of the mount effect
MergeOrder(saved) ==
  LET validSaved == SelectSeq(saved, LAMBDA k : COL_DEF_MAP(k))
      missing == SelectSeq(DEFAULT_COL_ORDER,
                           LAMBDA k : k \notin Range(validSaved))
  IN  validSaved \o missing

\* Columns the user drags and drops on.
DragKeys == {"tasks", "score", "agent_name"}

\* A key of an earlier registry that the current one no longer has.
LegacyKey == "legacy_col"

\* Length of the stored orders the preference store starts with.
MaxStoredLen == 3

\* Preference PUTs under way at one time.
MaxPuts == 2

RECURSIVE DistinctSeqs(_, _)
\* The duplicate-free sequences over keys, of length at most n.
DistinctSeqs(keys, n) ==
  IF n = 0 THEN {<<>>}
  ELSE {<<>>} \cup
       UNION {{<<k>> \o t : t \in DistinctSeqs(keys \ {k}, n - 1)} : k \in keys}

\* What the preference store can hold at mount: nothing, or an order written
\* by an earlier session (a duplicate-free list, possibly of another registry).
StoredInputs ==
  {NullPref}
  \cup {Pref(o) : o \in DistinctSeqs(DragKeys \cup {LegacyKey}, MaxStoredLen)}

\* A mount state whose colOrderLoaded starts true
InitMergeLoaded ==
  /\ InitGrid
  /\ colOrder = DEFAULT_COL_ORDER /\ colOrderLoaded = TRUE
  /\ dragColRef = "" /\ dragOverCol = ""
  /\ stored \in StoredInputs /\ prefGet = "pending" /\ puts = <<>>
  /\ lastDrop = "none"

\* The state at mount of the column-order controller.
InitMerge ==
  /\ InitGrid
  /\ colOrder = DEFAULT_COL_ORDER /\ colOrderLoaded = FALSE
  /\ dragColRef = "" /\ dragOverCol = ""
  /\ stored \in StoredInputs /\ prefGet = "pending" /\ puts = <<>>
  /\ lastDrop = "none"

\* .then of the mount GET
PrefGetThen ==
  /\ prefGet = "pending"
  /\ prefGet' = "settled"
  /\ colOrder' = IF ~stored.isNull /\ Len(stored.order) > 0
                 THEN MergeOrder(stored.order) ELSE colOrder
  /\ UNCHANGED <<colOrderLoaded, dragColRef, dragOverCol, stored, puts>>
  /\ UNCHANGED <<gridVars, lastDrop>>

\* .catch of the mount GET: the request failed
PrefGetCatch ==
  /\ prefGet = "pending"
  /\ prefGet' = "settled"
  /\ UNCHANGED <<colOrder, colOrderLoaded, dragColRef, dragOverCol, stored,
                 puts>>
  /\ UNCHANGED <<gridVars, lastDrop>>

\* A .finally that leaves the loaded flag as it is
PrefGetFinallyKeepsGate ==
  /\ prefGet = "settled"
  /\ prefGet' = "done"
  /\ UNCHANGED <<colOrder, colOrderLoaded, dragColRef, dragOverCol, stored,
                 puts>>
  /\ UNCHANGED <<gridVars, lastDrop>>

\* .finally of the mount GET
PrefGetFinally ==
  /\ prefGet = "settled"
  /\ prefGet' = "done"
  /\ colOrderLoaded' = TRUE
  /\ UNCHANGED <<colOrder, dragColRef, dragOverCol, stored, puts>>
  /\ UNCHANGED <<gridVars, lastDrop>>

\* A saveColOrder that sends the PUT twice
saveColOrderTwice(order) ==
  /\ Len(puts) + 1 < MaxPuts
  /\ puts' = Append(Append(puts, order), order)

\* saveColOrder(order): the PUT is sent and not awaited
saveColOrder(order) ==
  /\ Len(puts) < MaxPuts
  /\ puts' = Append(puts, order)

handleDragStart(key) ==
  /\ colOrderLoaded
  /\ dragColRef' = key
  /\ UNCHANGED <<colOrder, colOrderLoaded, dragOverCol, stored, prefGet, puts>>
  /\ UNCHANGED <<gridVars, lastDrop>>

handleDragOver(key) ==
  /\ colOrderLoaded /\ dragColRef # ""
  /\ dragOverCol' = key
  /\ UNCHANGED <<colOrder, colOrderLoaded, dragColRef, stored, prefGet, puts>>
  /\ UNCHANGED <<gridVars, lastDrop>>

handleDragLeave ==
  /\ colOrderLoaded /\ dragColRef # ""
  /\ dragOverCol' = ""
  /\ UNCHANGED <<colOrder, colOrderLoaded, dragColRef, stored, prefGet, puts>>
  /\ UNCHANGED <<gridVars, lastDrop>>

\* handleDrop without the test sourceKey === targetKey
handleDropNoSameKeyTest(targetKey) ==
  /\ colOrderLoaded
  /\ dragOverCol' = ""
  /\ IF dragColRef = ""
     THEN /\ UNCHANGED <<colOrder, puts, dragColRef>>
          /\ lastDrop' = "noop"
     ELSE /\ dragColRef' = ""
          /\ LET fromIdx == IndexOf(colOrder, dragColRef)
                 toIdx == IndexOf(colOrder, targetKey)
                 next == InsertAt(RemoveAt(colOrder, fromIdx), toIdx,
                                  dragColRef)
             IN  IF fromIdx = 0 \/ toIdx = 0
                 THEN /\ UNCHANGED <<colOrder, puts>>
                      /\ lastDrop' = "noop"
                 ELSE /\ colOrder' = next
                      /\ saveColOrder(next)
                      /\ lastDrop' = "moved"
  /\ UNCHANGED <<colOrderLoaded, stored, prefGet>>
  /\ UNCHANGED gridVars

handleDrop(targetKey) ==
  /\ colOrderLoaded
  /\ dragOverCol' = ""
  /\ IF dragColRef = "" \/ dragColRef = targetKey
     THEN /\ UNCHANGED <<colOrder, puts, dragColRef>>
          /\ lastDrop' = "noop"
     ELSE /\ dragColRef' = ""
          /\ LET fromIdx == IndexOf(colOrder, dragColRef)
                 toIdx == IndexOf(colOrder, targetKey)
                 next == InsertAt(RemoveAt(colOrder, fromIdx), toIdx,
                                  dragColRef)
             IN  IF fromIdx = 0 \/ toIdx = 0
                 THEN /\ UNCHANGED <<colOrder, puts>>
                      /\ lastDrop' = "noop"
                 ELSE /\ colOrder' = next
                      /\ saveColOrder(next)
                      /\ lastDrop' = "moved"
  /\ UNCHANGED <<colOrderLoaded, stored, prefGet>>
  /\ UNCHANGED gridVars

handleDragEnd ==
  /\ colOrderLoaded /\ dragColRef # ""
  /\ dragColRef' = ""
  /\ dragOverCol' = ""
  /\ UNCHANGED <<colOrder, colOrderLoaded, stored, prefGet, puts>>
  /\ UNCHANGED <<gridVars, lastDrop>>

\* const isCustomOrder = colOrder.join(',') !== DEFAULT_COL_ORDER.join(',')
isCustomOrder == colOrder # DEFAULT_COL_ORDER

\* The "Reset Columns" button, rendered while isCustomOrder
resetColOrder ==
  /\ colOrderLoaded /\ isCustomOrder
  /\ colOrder' = DEFAULT_COL_ORDER
  /\ saveColOrder(DEFAULT_COL_ORDER)
  /\ UNCHANGED <<colOrderLoaded, dragColRef, dragOverCol, stored, prefGet>>
  /\ UNCHANGED <<gridVars, lastDrop>>

\* The i-th PUT under way reaches the store (ok) or fails; either way the
\* client does nothing more with it.
PutDelivered(i, ok) ==
  /\ i \in 1..Len(puts)
  /\ stored' = IF ok THEN Pref(puts[i]) ELSE stored
  /\ puts' = RemoveAt(puts, i)
  /\ UNCHANGED <<colOrder, colOrderLoaded, dragColRef, dragOverCol, prefGet>>
  /\ UNCHANGED <<gridVars, lastDrop>>

\* Mount of the column-order controller: the preference GET and its merge.
NextMerge ==
  \/ PrefGetThen
  \/ PrefGetCatch
  \/ PrefGetFinally

SpecMerge == InitMerge /\ [][NextMerge]_vars

\* The mount GET settles: its promise is resolved or rejected, and the
\* callbacks chained on it run.
SpecMergeFair == SpecMerge /\ WF_vars(NextMerge)

\* The loaded grid's column order: drags, drops, reset and the PUTs.
NextOrder ==
  \/ \E k \in DragKeys : handleDragStart(k)
  \/ \E k \in DragKeys : handleDragOver(k)
  \/ handleDragLeave
  \/ \E k \in DragKeys : handleDrop(k)
  \/ handleDragEnd
  \/ resetColOrder
  \/ \E i \in 1..Len(puts), ok \in BOOLEAN : PutDelivered(i, ok)

SpecOrder == Init /\ [][NextOrder]_vars

\* ------------------------------------------------------------------------
\* Properties of the grid
\* ------------------------------------------------------------------------

\* C1: only the response of the most recently issued request is applied to
\* data: once every response has arrived and the latest request did not
\* fail, data holds the result of the latest issued request.
C1_LatestResponseOnly ==
  (inflight = {} /\ error = "" /\ data.loaded) => data.id = nIssued

\* C2: a drop of a dragged column on another column of the order leaves the
\* dragged column immediately before the target and keeps the relative order
\* of all the other columns.
C2_DropPlacesSourceBeforeTarget ==
  [][\A t \in DragKeys :
       (handleDrop(t) /\ dragColRef \in Range(colOrder) \ {t}
        /\ t \in Range(colOrder))
       => /\ IndexOf(colOrder', dragColRef) + 1 = IndexOf(colOrder', t)
          /\ RemoveAt(colOrder', IndexOf(colOrder', dragColRef))
               = RemoveAt(colOrder, IndexOf(colOrder, dragColRef))]_vars

\* result lists every registry key once: first the registry-known keys of S
\* in the order S has them, then the registry keys S omits in registry order.
IsMergeOf(result, S) ==
  LET known == Range(S) \cap RegistryKeys
      n == Cardinality(known)
  IN  /\ Len(result) = Cardinality(RegistryKeys)
      /\ Range(result) = RegistryKeys
      /\ \A i \in 1..n : result[i] \in known
      /\ \A i, j \in 1..n :
           i < j => IndexOf(S, result[i]) < IndexOf(S, result[j])
      /\ \A i, j \in (n + 1)..Len(result) :
           i < j => IndexOf(DEFAULT_COL_ORDER, result[i])
                      < IndexOf(DEFAULT_COL_ORDER, result[j])

\* C3: when the preference GET answers with the stored order S, the column
\* order becomes the registry-known keys of S in S's order followed by the
\* registry keys S omits in registry order, each key exactly once.
C3_MergeKeepsStoredThenRegistry ==
  [][PrefGetThen => IsMergeOf(colOrder', stored.order)]_vars

\* The stored order [score, tasks] was merged to [score, tasks, agent_name, ..].
C3_Witness ==
  /\ prefGet = "done" /\ stored = Pref(<<"score", "tasks">>)
  /\ SubSeq(colOrder, 1, 3) = <<"score", "tasks", "agent_name">>

\* C4: whatever the store held (nothing, an empty list, unknown keys, a list
\* that omits known columns), the column order holds every registry column
\* and merging it again returns it unchanged.
C4_MergeIdempotentKeepsAll ==
  /\ RegistryKeys \subseteq Range(colOrder)
  /\ MergeOrder(colOrder) = colOrder

\* A stored order with an unknown key and a single known one was merged.
C4_Witness ==
  /\ prefGet = "done" /\ stored = Pref(<<LegacyKey, "agent_name">>)
  /\ colOrder[1] = "agent_name" /\ colOrder # DEFAULT_COL_ORDER

\* The sort state useState gives the grid at mount.
InitialSort == sortBy = "accountid" /\ sortDir = "asc"

\* The transition table of the sort controller for a click on column c.
SortTable(c) ==
  /\ sortBy # c => (sortBy' = c /\ sortDir' = "asc")
  /\ (sortBy = c /\ sortDir = "asc") => (sortBy' = c /\ sortDir' = "desc")
  /\ (sortBy = c /\ sortDir = "desc") => (sortBy' = c /\ sortDir' = "asc")

\* C5 as stated: the transition table, exactly one active sort column, and
\* from the grid's initial state a click on any column X yields (X, asc).
C5_AnyFirstClickAscending ==
  /\ [](sortDir \in {"asc", "desc"})
  /\ [][\A c \in SortInputs : handleSort(c) =>
          /\ SortTable(c)
          /\ InitialSort => (sortBy' = c /\ sortDir' = "asc")]_vars

\* C5 amended: a click on column c moves the sort by the transition table,
\* there is exactly one sort column with a direction in every state, and from
\* the initial state (accountid, asc) a click on a column other than
\* accountid yields (that column, asc) while a click on accountid yields
\* (accountid, desc).
C5_SortTransitions ==
  /\ [](sortDir \in {"asc", "desc"})
  /\ [][\A c \in SortInputs : handleSort(c) =>
          /\ SortTable(c)
          /\ (InitialSort /\ c # "accountid")
               => (sortBy' = c /\ sortDir' = "asc")
          /\ (InitialSort /\ c = "accountid")
               => (sortBy' = c /\ sortDir' = "desc")]_vars

\* A column clicked twice in a row is sorted descending.
C5_Witness == sortBy = "balance" /\ sortDir = "desc"

\* The parameters of a query other than page and the activity window.
SortAndFilters(q) ==
  [sort_by |-> q.sort_by, sort_dir |-> q.sort_dir,
   params |-> [k \in (DOMAIN q.params) \ {"activity_days"} |-> q.params[k]]]

\* C6: a query that differs from the query issued before it in the sort, in
\* the applied filters or in a column filter is issued with page = 1, and
\* whenever the sort, the applied filters or the debounced column filters
\* take a new value the page is 1 in the same step.
C6_NewSortOrFilterOnPageOne ==
  /\ [][(nIssued' > nIssued
          /\ SortAndFilters(lastQuery') # SortAndFilters(lastQuery))
         => lastQuery'.page = 1]_vars
  /\ [][(sortBy' # sortBy \/ sortDir' # sortDir \/ applied' # applied
         \/ debouncedColFilters' # debouncedColFilters) => page' = 1]_vars

\* The third query is a sort click on page 2, issued with page 1.
C6_Witness ==
  /\ nIssued = 3 /\ prevPage = 2 /\ lastQuery.page = 1 /\ page = 1
  /\ lastQuery.sort_by = "balance"

\* C7: an edit of a filter-panel field or of the last-trade preset selector
\* changes only draft and issues no request; applied takes a new value only
\* in applyFilters, clearFilters, the chip bar's clear-all or a chip
\* dismissal; and applyFilters makes applied equal to draft.
C7_DraftEditsOnlyDraft ==
  /\ [][((\E kv \in PanelInputs : setField(kv[1], kv[2]))
         \/ (\E p \in PresetInputs : LastTradePresetChange(p)))
        => /\ draft' # draft
           /\ UNCHANGED <<page, sortBy, sortDir, applied, appliedIsConst,
                          activityDays, colFilters, debouncedColFilters,
                          data, loading, error, nIssued, lastQuery,
                          inflight>>]_vars
  /\ [][applied' # applied
        => \/ applyFilters
           \/ clearFilters
           \/ ChipBarClearAll
           \/ \E c \in GlobalChipKeys(applied) : dismiss(c)]_vars
  /\ [][applyFilters => applied' = draft']_vars

\* Panel fields and the preset were edited and nothing but the mount query
\* was issued.
C7_Witness ==
  /\ draft["accountid"] = "AB1" /\ draft["last_trade_preset"] = "today"
  /\ draft["balance_op"] = "gt"
  /\ applied = EMPTY_FILTERS /\ nIssued = 1

\* A per-column numeric filter that lacks its value, or the second bound of
\* a "between".
InactiveNumeric(cf) ==
  /\ cf.type = "numeric"
  /\ \/ ~Truthy(cf.val)
     \/ cf.op = "between" /\ ~Truthy(cf.val2)

\* Names of the query parameters load can emit for the filter of a column.
ColParamNames(col) ==
  LET pk == "filter_" \o FilterParamKey(col)
  IN  {pk, pk \o "_op", pk \o "_val", pk \o "_val2", pk \o "_preset",
       pk \o "_from", pk \o "_to"}

\* C8: a numeric filter with an operator and no value, and a per-column
\* "between" with only its first bound, contributes no query parameter and
\* is not counted as an active filter.
C8_IncompleteNumericInactive ==
  /\ \A p \in NumericPrefixes :
       (applied[OpKey(p)] # "" /\ applied[ValKey(p)] = "")
       => /\ {OpKey(p), ValKey(p)} \cap DOMAIN lastQuery.params = {}
          /\ countActive(applied)
               = countActive([applied EXCEPT ![OpKey(p)] = ""])
  /\ \A c \in DOMAIN debouncedColFilters :
       InactiveNumeric(debouncedColFilters[c])
       => ColParamNames(c) \cap DOMAIN lastQuery.params = {}
  /\ activeColFilterCount(colFilters)
       = Cardinality({c \in DOMAIN colFilters :
                        ~InactiveNumeric(colFilters[c])})

\* C9: no parameter of an issued query has the empty string or undefined as
\* its value.
C9_NoEmptyParameter ==
  \A k \in DOMAIN lastQuery.params : lastQuery.params[k] \notin {"", UNDEFINED}

\* C10: every query issued after a chip was dismissed, and before the user
\* sets that filter again, omits the parameters of that filter.  A parameter
\* sent with the empty string counts as omitted here (C9 is about those).
C10_DismissedFilterOmitted ==
  [][nIssued' > nIssued =>
       /\ \A c \in dismissedCols' :
            ColParamNames(c) \cap DOMAIN lastQuery'.params = {}
       /\ \A g \in dismissedChips' :
            \A k \in (DOMAIN DismissFields(g)) \cap DOMAIN lastQuery'.params :
              lastQuery'.params[k] = ""]_vars

\* The applied fields the condition of a global chip reads (filterChips).
ChipSourceFields(c) ==
  CASE c = "qual_date" -> {"qual_date_from", "qual_date_to"}
    [] c = "last_trade" ->
         {"last_trade_preset", "last_trade_from", "last_trade_to"}
    [] c \in NumericPrefixes -> {OpKey(c), ValKey(c)}
    [] OTHER -> {c}

PageTotals == {0, 50, 120}

NextPaging ==
  \/ \E id \in inflight, ok \in BOOLEAN, t \in PageTotals : Respond(id, ok, t)
  \/ \E c \in SortInputs : handleSort(c)
  \/ PrevPage
  \/ NextPage
  \/ \E v \in ActivityInputs : SetActivityDays(v)
  \/ TimerFire

SpecPaging == Init /\ [][NextPaging]_vars

\* C12: whenever the response of the latest request is loaded and reports at
\* least one page, page lies in 1..totalPages with totalPages =
\* ceil(total / 50); Prev and Next leave page in that range; and no
\* navigation step is taken while the reported total is 0.
C12_PageWithinTotalPages ==
  /\ []((data.loaded /\ inflight = {} /\ data.id = nIssued /\ totalPages >= 1)
        => page \in 1..totalPages)
  /\ [](data.loaded => totalPages = CeilDiv(data.total, 50))
  /\ [][(PrevPage \/ NextPage)
        => (page' \in 1..totalPages /\ data.total # 0)]_vars

\* C13: at most one debounce timer is pending; every change of colFilters
\* leaves exactly the timer armed for the new value; debouncedColFilters
\* changes only when a timer fires and then equals the current colFilters;
\* and while the two differ a timer for the current colFilters is pending,
\* so that once no timer is pending debouncedColFilters equals colFilters.
C13_DebounceSingleTimer ==
  /\ [](Cardinality(timers) <= 1)
  /\ [](timers \subseteq {colFilters})
  /\ [](timers = {} => debouncedColFilters = colFilters)
  /\ [][colFilters' # colFilters => timers' = {colFilters'}]_vars
  /\ [][debouncedColFilters' # debouncedColFilters
        => (TimerFire /\ debouncedColFilters' = colFilters')]_vars

\* The mount timer was superseded by an edit: the only query after the mount
\* query carries the edited column filter.
C13_Witness ==
  /\ timers = {} /\ nIssued = 2
  /\ debouncedColFilters = colFilters /\ colFilters # NoColFilters
  /\ "filter_agent" \in DOMAIN lastQuery.params

\* A step in which the user committed a change of the grid: a new page, sort,
\* activity window or applied filter value, an Apply, Clear or chip
\* dismissal, or a new debounced column-filter value.
CommittedChange ==
  \/ page' # page \/ sortBy' # sortBy \/ sortDir' # sortDir
  \/ activityDays' # activityDays
  \/ applied' # applied
  \/ applyFilters \/ clearFilters \/ ChipBarClearAll
  \/ debouncedColFilters' # debouncedColFilters

\* C14: a step issues at most one request; a sort click, an Apply and a page
\* change each issue exactly one request in their own step; an edit of a
\* column filter issues none and the timer that ends the burst issues one;
\* and after the mount query a request is issued only in a step that commits
\* a change.
C14_OneRequestPerCommittedChange ==
  [][/\ nIssued' \in {nIssued, nIssued + 1}
     /\ ((\E c \in SortInputs : handleSort(c)) \/ applyFilters \/ PrevPage
         \/ NextPage) => nIssued' = nIssued + 1
     /\ (colFilters' # colFilters /\ ~ChipBarClearAll) => nIssued' = nIssued
     /\ TimerFire => nIssued' = nIssued + 1
     /\ nIssued' > nIssued => CommittedChange]_vars

\* C15: after "Clear All" of the filter panel or "Clear all" of the chip bar,
\* draft and applied are the empty filter set, the column filters are empty,
\* the sort is the mount default (accountid, asc) and page is 1.
C15_ClearRestoresDefaults ==
  [][(clearFilters \/ ChipBarClearAll)
     => /\ draft' = EMPTY_FILTERS /\ applied' = EMPTY_FILTERS
        /\ colFilters' = NoColFilters
        /\ sortBy' = "accountid" /\ sortDir' = "asc"
        /\ page' = 1]_vars

\* ------------------------------------------------------------------------
\* The drop handler over keys the column order may not hold
\* ------------------------------------------------------------------------

\* Keys handed to the drag handlers: the dragged columns and a key that no
\* column order holds.
DropKeys == DragKeys \cup {LegacyKey}

NextDrop ==
  \/ \E k \in DropKeys : handleDragStart(k)
  \/ \E k \in DropKeys : handleDragOver(k)
  \/ handleDragLeave
  \/ \E k \in DropKeys : handleDrop(k)
  \/ handleDragEnd
  \/ resetColOrder
  \/ \E i \in 1..Len(puts), ok \in BOOLEAN : PutDelivered(i, ok)

SpecDrop == Init /\ [][NextDrop]_vars

\* C16: a drop whose source is the target, a drop with no drag in progress,
\* and a drop whose source or target the current order does not hold leave
\* the column order as it was and send no preference PUT.
C16_DropNoOp ==
  [][\A t \in DropKeys :
       (handleDrop(t)
        /\ (dragColRef = "" \/ dragColRef = t
            \/ dragColRef \notin Range(colOrder) \/ t \notin Range(colOrder)))
       => (colOrder' = colOrder /\ puts' = puts /\ stored' = stored)]_vars

\* After an earlier reorder, a column was dropped on a key the order does not
\* hold: the order and the pending PUT are those of the reorder.
C16_Witness ==
  /\ lastDrop = "noop" /\ dragColRef = "" /\ dragOverCol = ""
  /\ colOrder # DEFAULT_COL_ORDER /\ puts = <<colOrder>>

\* A drop that moves a column: a drag is in progress, on another key, and the
\* order holds both keys.
Reorder(t) ==
  /\ handleDrop(t)
  /\ dragColRef \in Range(colOrder) \ {t}
  /\ t \in Range(colOrder)

\* C17: every reorder and every reset sends exactly one PUT, carrying the
\* new in-memory column order (the registry default for a reset), and no
\* other step sends one; a PUT that fails leaves the column order, the
\* loaded flag and the grid's error as they were and is not sent again.
C17_OnePutPerReorder ==
  /\ [][\A t \in DragKeys : Reorder(t) => puts' = Append(puts, colOrder')]_vars
  /\ [][resetColOrder
        => (colOrder' = DEFAULT_COL_ORDER
            /\ puts' = Append(puts, DEFAULT_COL_ORDER))]_vars
  /\ [][Len(puts') > Len(puts)
        => (resetColOrder \/ \E t \in DragKeys : Reorder(t))]_vars
  /\ [][\A i \in 1..Len(puts) :
          PutDelivered(i, FALSE)
          => /\ UNCHANGED <<colOrder, colOrderLoaded, error, stored>>
             /\ puts' = RemoveAt(puts, i)]_vars

\* The PUT of a reorder failed: the moved order is in memory, the store
\* still holds nothing, no PUT is under way and no error is shown.
C17_Witness ==
  /\ lastDrop = "moved" /\ colOrder # DEFAULT_COL_ORDER
  /\ puts = <<>> /\ stored = NullPref
  /\ colOrderLoaded /\ error = ""

\* ------------------------------------------------------------------------
\* Column-order persistence when every PUT succeeds
\* ------------------------------------------------------------------------

NextPuts ==
  \/ \E k \in DragKeys : handleDragStart(k)
  \/ \E k \in DragKeys : handleDragOver(k)
  \/ handleDragLeave
  \/ \E k \in DragKeys : handleDrop(k)
  \/ handleDragEnd
  \/ resetColOrder
  \/ \E i \in 1..Len(puts) : PutDelivered(i, TRUE)

SpecPuts == Init /\ [][NextPuts]_vars

\* C18: in whatever order the PUTs are delivered, once every PUT sent has
\* been delivered with success the stored preference is the order of the
\* PUT sent last, which is the in-memory column order.
C18_LaterWriteWins ==
  (puts = <<>> /\ stored # NullPref) => stored = Pref(colOrder)

C20_PreferenceGetAlwaysLoads ==
  /\ <>colOrderLoaded
  /\ [][PrefGetCatch => colOrder' = DEFAULT_COL_ORDER]_vars
  /\ [][(PrefGetThen /\ (stored.isNull \/ stored.order = <<>>))
        => colOrder' = DEFAULT_COL_ORDER]_vars
  /\ [][(PrefGetThen \/ PrefGetCatch \/ PrefGetFinally)
        => UNCHANGED error]_vars
  /\ [](error = "")

\* The GET failed although the store holds an order: the grid is rendered
\* with the registry default and without an error.
C20_Witness ==
  /\ colOrderLoaded /\ prefGet = "done"
  /\ stored = Pref(<<"score", "tasks">>)
  /\ colOrder = DEFAULT_COL_ORDER /\ error = ""

\* ------------------------------------------------------------------------
\* Parameter names of the column filters
\* ------------------------------------------------------------------------

\* The columns whose header renders a filter input.
FilterableCols ==
  {"accountid", "full_name", "agent_name", "score", "balance", "credit",
   "equity", "live_equity", "max_open_trade", "max_volume", "turnover",
   "client_qualification_date", "last_trade_date"}

\* The colFilters a single header filter leaves behind when it is edited on
\* the freshly mounted grid: a text, a comparison, a range with and without
\* its upper bound, a preset, and a custom range with and without its dates.
ColParamInputs ==
  {ColTextChange(NoColFilters, c, "x") :
     c \in {k \in FilterableCols : FilterType(k) = "text"}}
  \cup {ColNumericUpdate(NoColFilters, c, o, "5", v2) :
          c \in {k \in FilterableCols : FilterType(k) = "numeric"},
          o \in ColNumOps, v2 \in ColNumVals2}
  \cup {ColDateUpdate(NoColFilters, c, p, f, t) :
          c \in {k \in FilterableCols : FilterType(k) = "date"},
          p \in {"today", "custom"}, f \in ColDateDays, t \in ColDateDays}

\* The mounted grid right after the edits of one header filter: the mount
\* request is in flight and the debounce timer of the last edit is pending.
InitColParams ==
  /\ page = 1 /\ sortBy = "accountid" /\ sortDir = "asc"
  /\ draft = EMPTY_FILTERS /\ applied = EMPTY_FILTERS
  /\ appliedIsConst = TRUE
  /\ activityDays = "35"
  /\ colFilters \in ColParamInputs
  /\ debouncedColFilters = NoColFilters
  /\ timers = {colFilters}
  /\ data = NoData /\ loading = TRUE /\ error = ""
  /\ nIssued = 1
  /\ lastQuery = BuildQuery(1, "accountid", "asc", EMPTY_FILTERS, "35",
                            NoColFilters)
  /\ prevPage = 1
  /\ inflight = {1}
  /\ dismissedCols = {} /\ dismissedChips = {}
  /\ mounted = TRUE
  /\ ColIdle

NextColParams ==
  \/ \E id \in inflight : Respond(id, TRUE, 0)
  \/ TimerFire
  \/ \E c \in ColChipKeys(colFilters) : dismissCol(c)
  \/ clearColFilters

SpecColParams == InitColParams /\ [][NextColParams]_vars

\* The names that begin with filter_<p> among those load can build.
NamesOn(p) ==
  LET pk == "filter_" \o p
  IN  {pk, pk \o "_op", pk \o "_val", pk \o "_val2", pk \o "_preset",
       pk \o "_from", pk \o "_to"}

\* The column-filter parameters of the last issued query.
FilterParamNames(q) ==
  DOMAIN q.params \ (FilterKeys \cup {"activity_days"})

\* C21: every column-filter parameter of an issued query is named
\* filter_<p>..., p being the filterParamKey of a column that has a filter
\* (agent, reg_date, last_call) or the column key itself; an active filter
\* emits such a parameter, and no parameter named filter_<k>... is emitted
\* for a column k whose filterParamKey differs from k.
C21_ParamNamesUseFilterParamKey ==
  LET p(k) == CASE k = "agent_name" -> "agent"
                [] k = "client_qualification_date" -> "reg_date"
                [] k = "last_trade_date" -> "last_call"
                [] OTHER -> k
  IN  /\ FilterParamNames(lastQuery)
           \subseteq UNION {NamesOn(p(k)) : k \in DOMAIN debouncedColFilters}
      /\ \A k \in DOMAIN debouncedColFilters :
           /\ ColChipShown(debouncedColFilters[k])
                => NamesOn(p(k)) \cap FilterParamNames(lastQuery) # {}
           /\ p(k) # k
                => NamesOn(k) \cap FilterParamNames(lastQuery) = {}

C21_Witness ==
  /\ "client_qualification_date" \in DOMAIN debouncedColFilters
  /\ "filter_reg_date_from" \in DOMAIN lastQuery.params
  /\ "filter_reg_date_to" \in DOMAIN lastQuery.params

\* ------------------------------------------------------------------------
\* A global filter, a column filter and a sort together
\* ------------------------------------------------------------------------

\* Requests the steps below issue: Apply, the debounced column filter, and
\* the two clicks that sort a new column descending.
ScenarioRequests == 4

\* The grid at rest after mount: the mount request and the request of the
\* mount debounce timer are answered (no account matched), no timer is
\* pending.  Requests are numbered so that ScenarioRequests more can be
\* issued.
InitScenario ==
  /\ page = 1 /\ sortBy = "accountid" /\ sortDir = "asc"
  /\ draft = EMPTY_FILTERS /\ applied = EMPTY_FILTERS
  /\ appliedIsConst = TRUE
  /\ activityDays = "35"
  /\ colFilters = NoColFilters /\ debouncedColFilters = NoColFilters
  /\ timers = {}
  /\ nIssued = MaxRequests - ScenarioRequests
  /\ data = [loaded |-> TRUE, id |-> nIssued, total |-> 0, rows |-> 0]
  /\ loading = FALSE /\ error = ""
  /\ lastQuery = BuildQuery(1, "accountid", "asc", EMPTY_FILTERS, "35",
                            NoColFilters)
  /\ prevPage = 1
  /\ inflight = {}
  /\ dismissedCols = {} /\ dismissedChips = {}
  /\ mounted = TRUE
  /\ ColIdle

\* Typing AB1 into the account field, Apply, typing 500 into the header
\* filter of balance (its operator select shows >), the debounce timer, and
\* clicks on the header of total_profit, in any order, with three-page
\* responses.
NextScenario ==
  \/ setField("accountid", "AB1")
  \/ applyFilters
  \/ ColNumValEdit("balance", "500")
  \/ TimerFire
  \/ handleSort("total_profit")
  \/ \E id \in inflight : Respond(id, TRUE, 120)

SpecScenario == InitScenario /\ [][NextScenario]_vars

\* C22: once accountid AB1 is applied, the column filter balance > 500 is
\* committed and the sort is total_profit descending, the issued query
\* carries accountid=AB1, filter_balance_op=gt, filter_balance_val=500,
\* sort_by=total_profit, sort_dir=desc and page=1; a response with total 120
\* and 50 clients leaves 50 rows to render and totalPages = 3.
C22_ScenarioQuery ==
  /\ []((/\ applied["accountid"] = "AB1"
         /\ "balance" \in DOMAIN debouncedColFilters
         /\ debouncedColFilters["balance"] = NumF("gt", "500", UNDEFINED)
         /\ sortBy = "total_profit" /\ sortDir = "desc")
        => /\ lastQuery.page = 1
           /\ lastQuery.sort_by = "total_profit"
           /\ lastQuery.sort_dir = "desc"
           /\ {"accountid", "filter_balance_op", "filter_balance_val"}
                \subseteq DOMAIN lastQuery.params
           /\ lastQuery.params["accountid"] = "AB1"
           /\ lastQuery.params["filter_balance_op"] = "gt"
           /\ lastQuery.params["filter_balance_val"] = "500")
  /\ [][\A id \in inflight :
          (Respond(id, TRUE, 120) /\ data'.rows = 50)
          => (clients' = 50 /\ totalPages' = 3 /\ ~loading')]_vars

C22_Witness ==
  /\ applied["accountid"] = "AB1"
  /\ "balance" \in DOMAIN debouncedColFilters
  /\ sortBy = "total_profit" /\ sortDir = "desc"
  /\ "filter_balance_val" \in DOMAIN lastQuery.params
  /\ lastQuery.params["accountid"] = "AB1"
  /\ inflight = {} /\ data.id = nIssued
  /\ clients = 50 /\ totalPages = 3

\* ------------------------------------------------------------------------
\* The table body
\* ------------------------------------------------------------------------

\* Largest row index of the windows below.
MaxIndex == 2

\* rowVirtualizer.getVirtualItems(), as the set of row indexes it returns.
\* The virtualizer computes it outside this component, from the count, the
\* scroll offset and the measured rows; any index range stands for it.
VirtualItemSets == {lo..hi : lo \in 0..MaxIndex, hi \in 0..MaxIndex}

\* A table body that tests only for missing data
TableBodyNoEmptyTest(items) ==
  IF loading
  THEN [placeholder |-> "Loading", spacers |-> 0, rows |-> 0]
  ELSE IF ~data.loaded
  THEN [placeholder |-> "No accounts found.", spacers |-> 0, rows |-> 0]
  ELSE [placeholder |-> "",
        spacers |-> IF items # {} THEN 2 ELSE 0,
        rows |-> Cardinality(items)]

\* The <tbody>: the placeholder row, or the leading spacer, one row per
\* virtual item and the trailing spacer (the spacers only when there is an
\* item).
TableBody(items) ==
  IF loading
  THEN [placeholder |-> "Loading", spacers |-> 0, rows |-> 0]
  ELSE IF ~data.loaded \/ clients = 0
  THEN [placeholder |-> "No accounts found.", spacers |-> 0, rows |-> 0]
  ELSE [placeholder |-> "",
        spacers |-> IF items # {} THEN 2 ELSE 0,
        rows |-> Cardinality(items)]

\* C24: when the row count is 0 the table body has no data row and no
\* spacer row, whatever the virtualizer returns.
C24_NoRowsNoSpacers ==
  clients = 0
  => \A items \in VirtualItemSets :
       TableBody(items).rows = 0 /\ TableBody(items).spacers = 0

C24_Witness ==
  /\ data.loaded /\ data.total = 120 /\ clients = 0 /\ ~loading
  /\ TableBody({}).placeholder = "No accounts found."

\* ------------------------------------------------------------------------
\* Unmount and the debounce timer
\* ------------------------------------------------------------------------

\* The header filters of a text and a numeric column, the debounce timer,
\* the responses and the unmount, in every order.
NextUnmount ==
  \/ \E id \in inflight : Respond(id, TRUE, 0)
  \/ \E kv \in ColTextInputs : ColTextEdit(kv[1], kv[2])
  \/ \E c \in ColNumCols, v \in ColNumVals : ColNumValEdit(c, v)
  \/ clearColFilters
  \/ \E c \in ColChipKeys(colFilters) : dismissCol(c)
  \/ TimerFire
  \/ Unmount

SpecUnmount == Init /\ [][NextUnmount]_vars

\* C25: after the unmount no debounce timer is pending, no timer fires, and
\* debouncedColFilters and page are never written again, whenever the last
\* column-filter edit happened.
C25_NoDebounceAfterUnmount ==
  /\ [](~mounted => timers = {})
  /\ [][TimerFire => mounted]_vars
  /\ [][~mounted => (/\ debouncedColFilters' = debouncedColFilters
                     /\ page' = page)]_vars

C25_Witness ==
  /\ ~mounted
  /\ colFilters # debouncedColFilters
  /\ "agent_name" \in DOMAIN colFilters
  /\ timers = {}

\* ------------------------------------------------------------------------
\* The column-order gate
\* ------------------------------------------------------------------------

\* What the component returns: the "Loading..." block while colOrderLoaded
\* is false, the page with the grid table otherwise.
RenderedView == IF ~colOrderLoaded THEN "Loading..." ELSE "grid"

\* C26: the grid table is rendered only once colOrderLoaded is true; the
\* .then of a GET that answers with a non-empty order sets the merged order
\* while the flag is still false; and once the grid is rendered the GET
\* never changes colOrder, so the default order is never shown and then
\* replaced by the stored one.
C26_MergeBeforeFirstPaint ==
  /\ [](RenderedView = "grid" => (colOrderLoaded /\ prefGet = "done"))
  /\ [][(PrefGetThen /\ ~stored.isNull /\ stored.order # <<>>)
        => (/\ colOrder' = MergeOrder(stored.order)
            /\ RenderedView' = "Loading...")]_vars
  /\ [][RenderedView = "grid" => colOrder' = colOrder]_vars

C26_Witness ==
  /\ RenderedView = "grid" /\ prefGet = "done"
  /\ stored = Pref(<<"score", "tasks">>)
  /\ colOrder = MergeOrder(stored.order)
  /\ colOrder # DEFAULT_COL_ORDER

\* C27: loading is true in every state in which a page-fetch request of the
\* mounted grid is in flight.
C27_LoadingWhileInFlight ==
  (mounted /\ inflight # {}) => loading

\* Every parameter of a query but its page.
AllButPage(q) == <<q.sort_by, q.sort_dir, q.page_size, q.params>>

\* C28: a query that differs from the query issued before it in a parameter
\* other than page (a global filter, a column filter, the sort, or
\* activity_days) carries page=1.
C28_AnyChangeOnPageOne ==
  [][(nIssued' # nIssued /\ AllButPage(lastQuery') # AllButPage(lastQuery))
     => lastQuery'.page = 1]_vars

\* ------------------------------------------------------------------------
\* The active-filter count and the chips
\* ------------------------------------------------------------------------

\* What is typed into the account field and picked in the two
\* qualification-date inputs of the filter panel.
CountInputs ==
  {<<"accountid", "AB1">>, <<"accountid", "">>,
   <<"qual_date_from", "2024-04-01">>, <<"qual_date_from", "">>,
   <<"qual_date_to", "2024-04-30">>, <<"qual_date_to", "">>}

\* The filter panel with a text field and a date range as the inputs.
NextCount ==
  \/ \E id \in inflight : Respond(id, TRUE, 0)
  \/ \E kv \in CountInputs : setField(kv[1], kv[2])
  \/ applyFilters
  \/ clearFilters
  \/ \E c \in GlobalChipKeys(applied) : dismiss(c)
  \/ TimerFire

SpecCount == Init /\ [][NextCount]_vars

\* The global filter parameters of a query that carry a non-empty value.
NonEmptyGlobalParams(q) ==
  {k \in DOMAIN q.params \cap FilterKeys : q.params[k] # ""}

\* C29: countActive(applied) equals the number of global chips, and it is
\* greater than 0 exactly when the query carries a global filter parameter
\* with a non-empty value.
C29_CountMatchesChips ==
  /\ countActive(applied) = Cardinality(GlobalChipKeys(applied))
  /\ (countActive(applied) > 0) <=> (NonEmptyGlobalParams(lastQuery) # {})

\* The columns for which the query built from a colFilters value carries at
\* least one filter_ parameter.
ColsWithParams(cfs) ==
  {c \in FilterableCols :
     NamesOn(FilterParamKey(c)) \cap DOMAIN ColFilterParams(cfs) # {}}

\* C30: whatever header filters were edited, the number of entries of
\* colFilters equals the number of column chips and the number of columns
\* the query built from colFilters filters on.
C30_EveryEntryActive ==
  /\ activeColFilterCount(colFilters) = Cardinality(ColChipKeys(colFilters))
  /\ activeColFilterCount(colFilters)
       = Cardinality(ColsWithParams(colFilters))

====
